---- MODULE Spec2Model ----
(***************************************************************************)
(* Account-management service: token lifecycle and session rotation.      *)
(*                                                                         *)
(* The state is the relational store (accounts, refresh_tokens), the wall  *)
(* clock, the configuration of the auth client, the uuid generator and the *)
(* HTTP requests in flight.  Every handler is a process whose steps are    *)
(* its store calls and clock reads, so that requests interleave exactly    *)
(* where the Go handlers can be preempted by one another.                  *)
(***************************************************************************)
EXTENDS Integers, Sequences, FiniteSets, TLC

(***************************************************************************)
(* Bounds of the model.                                                    *)
(***************************************************************************)
NumReq == 2        \* request slots: requests that can be in flight together
MaxTime == 1       \* the clock runs 0..MaxTime
MaxTokens == 4     \* refresh tokens minted in a run
MaxRequests == 5   \* requests arriving in a run

Reqs == 1..NumReq
Times == 0..MaxTime

(***************************************************************************)
(* Strings are sequences of one-character strings, so that the validators  *)
(* can look at their characters.                                           *)
(***************************************************************************)
EmailA == <<"a", "@", "b", ".", "c">>
EmailB == <<"A", "@", "b", ".", "c">>
EmailBad == <<"a", "b", ".", "c">>
Emails == {EmailA, EmailB, EmailBad}

PwGood == <<"P", "a", "s", "s", "w", "0", "r", "d", "!">>
PwOther == <<"A", "a", "1", "!", "b", "c", "d", "e">>
PwWeak == <<"p", "a", "s", "s">>
RegisterPasswords == {PwGood, PwWeak}
LoginPasswords == {PwGood, PwOther}

Lower == {"a", "b", "c", "d", "e", "p", "r", "s", "w", "x"}
Upper == {"A", "B", "C", "D", "E", "P"}
Digit == {"0", "1"}
Special == {"!", "@", "#", "$", "%", "^", "&", "*", "(", ")", ",", ".", "?", "\"", ":", "{", "}", "|", "<", ">"}

(***************************************************************************)
(* internal/service/auth: passwords and emails.                            *)
(***************************************************************************)
HasOneOf(password, class) == \E i \in 1..Len(password) : password[i] \in class

\* ValidationError.Error()
Error(message) == "Validation Error: " \o message

\* A validator that looks at the character classes before the length.
validatePasswordClassesFirst(password) ==
  IF \E class \in {Lower, Upper, Digit, Special} : ~HasOneOf(password, class)
    THEN "password must contain uppercase, lowercase, digit, and special character"
  ELSE IF Len(password) < 8 THEN "password must be at least 8 characters long"
  ELSE IF Len(password) > 72
    THEN "password must be less than or equal to 72 characters long"
  ELSE ""

\* "" (nil) when the password passes, else the Message of the ValidationError.
validatePassword(password) ==
  IF Len(password) < 8 THEN "password must be at least 8 characters long"
  ELSE IF Len(password) > 72
    THEN "password must be less than or equal to 72 characters long"
  ELSE IF \E class \in {Lower, Upper, Digit, Special} : ~HasOneOf(password, class)
    THEN "password must contain uppercase, lowercase, digit, and special character"
  ELSE ""

\* The zero byte bcrypt appends to the password.
NUL == "NUL"

\* The bytes of key material the Blowfish key schedule of bcrypt reads.
BcryptKeyBytes == 72

\* blowfish.ExpandKey on the password and its trailing zero byte: the key is
\* read cyclically, BcryptKeyBytes bytes of it, whatever its length.
ExpandKey(password) ==
  LET key == password \o <<NUL>>
  IN  [i \in 1..BcryptKeyBytes |-> key[((i - 1) % Len(key)) + 1]]

\* bcrypt: a salted one-way hash of the expanded key.  The salt is kept in
\* the hash and CompareHashAndPassword hashes the candidate with that salt, so
\* a hash is told from another by the key material alone.
NoHash == [alg |-> "", key |-> <<>>]
HashPassword(password) ==
  IF validatePassword(password) # ""
    THEN [hash |-> NoHash, err |-> validatePassword(password)]
    ELSE [hash |-> [alg |-> "bcrypt", key |-> ExpandKey(password)], err |-> ""]

\* bcrypt.CompareHashAndPassword puts no bound on the candidate's length.
PasswordIsCorrect(password, hashedPassword) ==
  hashedPassword.alg = "bcrypt" /\ hashedPassword.key = ExpandKey(password)

\* net/mail ParseAddress on a bare addr-spec: local@domain, both dot-atoms.
IsDotAtom(s) ==
  /\ Len(s) > 0
  /\ s[1] # "." /\ s[Len(s)] # "."
  /\ \A i \in 1..Len(s) : s[i] \notin {" ", "@"}
  /\ \A i \in 1..(Len(s) - 1) : ~(s[i] = "." /\ s[i + 1] = ".")

IsValidEmail(email) ==
  \E i \in 1..Len(email) :
    /\ email[i] = "@"
    /\ IsDotAtom(SubSeq(email, 1, i - 1))
    /\ IsDotAtom(SubSeq(email, i + 1, Len(email)))

(***************************************************************************)
(* internal/config: the TTLs come from the environment.                    *)
(***************************************************************************)
\* An environment variable is unset, or set to a number of minutes.
Unset == [set |-> FALSE, value |-> 0]
EnvValues == {Unset, [set |-> TRUE, value |-> 0]}
DefaultAccessTokenTTLMinutes == 15
DefaultRefreshTokenTTLMinutes == 1440

\* caarlos0/env: the variable's value, or envDefault when it is unset.
EnvOr(v, default) == IF v.set THEN v.value ELSE default

\* Both TTL fields carry the tag env:"REFRESH_TOKEN_TTL_MINUTES".
Load(env) ==
  [JWTSecretKey |-> env.JWT_SECRET_KEY,
   AccessTokenTTLMinutes |->
     EnvOr(env.REFRESH_TOKEN_TTL_MINUTES, DefaultAccessTokenTTLMinutes),
   RefreshTokenTTLMinutes |->
     EnvOr(env.REFRESH_TOKEN_TTL_MINUTES, DefaultRefreshTokenTTLMinutes)]

\* JWT_SECRET_KEY is required: the service does not start without it.
Secret == <<"k">>

Envs ==
  [JWT_SECRET_KEY : {Secret},
   ACCESS_TOKEN_TTL_MINUTES : EnvValues, REFRESH_TOKEN_TTL_MINUTES : EnvValues]

(***************************************************************************)
(* internal/webserver/httputils: the response writer.                      *)
(***************************************************************************)
NoAccessToken ==
  [account_id |-> 0, iss |-> "", iat |-> 0, exp |-> 0, jti |-> 0, sig |-> <<>>]

EmptyBody ==
  [message |-> "", type |-> "", http_status |-> "", account_id |-> 0,
   access_token |-> NoAccessToken, refresh_token |-> 0, token_type |-> "",
   expires_in |-> 0]

\* An http.ResponseWriter on which nothing was written yet.
NewResponseWriter == [wroteHeader |-> FALSE, code |-> 0, body |-> EmptyBody]

\* net/http: the first WriteHeader sets the status, later ones are ignored.
WriteHeader(w, statusCode) ==
  IF w.wroteHeader THEN w
  ELSE [w EXCEPT !.wroteHeader = TRUE, !.code = statusCode]

\* net/http: a Write before any WriteHeader sends the header with 200 first.
Write(w, body) == [WriteHeader(w, 200) EXCEPT !.body = body]

StatusText(code) ==
  CASE code = 400 -> "Bad Request"
    [] code = 401 -> "Unauthorized"
    [] code = 409 -> "Conflict"
    [] code = 422 -> "Unprocessable Entity"
    [] code = 500 -> "Internal Server Error"
    [] OTHER -> ""

WriteJSONResponse(w, status, responseBody) ==
  Write(WriteHeader(w, status), responseBody)

ErrorResponse(message, type, statusCode) ==
  [Message |-> message, Type |-> type, StatusCode |-> statusCode]

WriteErrorResponse(w, httpErr) ==
  LET statusCode == IF httpErr.StatusCode = 0 THEN 500 ELSE httpErr.StatusCode
      body == [EmptyBody EXCEPT !.message = httpErr.Message,
                                !.type = httpErr.Type,
                                !.http_status = StatusText(statusCode)]
  IN  WriteHeader(Write(w, body), statusCode)

(***************************************************************************)
(* internal/database: the store.  accounts and refresh_tokens are the two  *)
(* tables; every operator is one SQL statement, atomic in the database.    *)
(***************************************************************************)
NoAccount == [id |-> 0, email |-> <<>>, password_hash |-> NoHash]
NoRefreshToken == [token |-> 0, account_id |-> 0, expires_at |-> 0, created_at |-> 0]

\* A store that answers a duplicate email by replacing the account.
CreateAccountReplace(accts, params, id) ==
  LET row == [id |-> id, email |-> params.Email,
              password_hash |-> params.PasswordHash]
  IN  [accounts |-> {a \in accts : a.email # params.Email} \cup {row},
       account |-> row, err |-> ""]

\* createAccountSQL: email is UNIQUE, id defaults to gen_random_uuid().
CreateAccount(accts, params, id) ==
  IF \E a \in accts : a.email = params.Email
    THEN [accounts |-> accts, account |-> NoAccount,
          err |-> "ErrAccountAlreadyExists"]
    ELSE LET row == [id |-> id, email |-> params.Email,
                     password_hash |-> params.PasswordHash]
         IN  [accounts |-> accts \cup {row}, account |-> row, err |-> ""]

\* strings.ToLower on the letters the emails of the model use.
Fold(s) == [i \in 1..Len(s) |-> IF s[i] = "A" THEN "a" ELSE s[i]]

\* A lookup that ignores the case of letters.
GetAccountFoldCase(accts, email) ==
  IF \E a \in accts : Fold(a.email) = Fold(email)
    THEN [account |-> CHOOSE a \in accts : Fold(a.email) = Fold(email), err |-> ""]
    ELSE [account |-> NoAccount, err |-> "ErrAccountNotFound"]

\* getAccountSQL: WHERE email = $1, an exact match.
GetAccount(accts, email) ==
  IF \E a \in accts : a.email = email
    THEN [account |-> CHOOSE a \in accts : a.email = email, err |-> ""]
    ELSE [account |-> NoAccount, err |-> "ErrAccountNotFound"]

\* A single-session store: inserting a token replaces the account's other rows.
CreateRefreshTokenSingleSession(tokens, accts, params, dbNow) ==
  IF ~\E a \in accts : a.id = params.AccountID
    THEN [tokens |-> tokens, err |-> "error creating refresh token"]
    ELSE [tokens |-> {t \in tokens : t.account_id # params.AccountID} \cup
                       {[token |-> params.Token, account_id |-> params.AccountID,
                         expires_at |-> params.ExpiresAt, created_at |-> dbNow]},
          err |-> ""]

\* An upsert that hands the conflicting row to the account the call names.
CreateRefreshTokenReassign(tokens, accts, params, dbNow) ==
  IF ~\E a \in accts : a.id = params.AccountID
    THEN [tokens |-> tokens, err |-> "error creating refresh token"]
    ELSE [tokens |-> {t \in tokens : t.token # params.Token} \cup
                       {[token |-> params.Token, account_id |-> params.AccountID,
                         expires_at |-> params.ExpiresAt, created_at |-> dbNow]},
          err |-> ""]

\* An insert into a table whose account_id column references nothing.
CreateRefreshTokenNoForeignKey(tokens, accts, params, dbNow) ==
  IF \E t \in tokens : t.token = params.Token
    THEN LET old == CHOOSE t \in tokens : t.token = params.Token
         IN  [tokens |-> (tokens \ {old}) \cup
                           {[old EXCEPT !.expires_at = params.ExpiresAt,
                                        !.created_at = dbNow]},
              err |-> ""]
    ELSE [tokens |-> tokens \cup
                       {[token |-> params.Token, account_id |-> params.AccountID,
                         expires_at |-> params.ExpiresAt, created_at |-> dbNow]},
          err |-> ""]

\* createRefreshTokenSQL: INSERT ... ON CONFLICT (token) DO UPDATE SET
\* token, expires_at, created_at; account_id REFERENCES accounts(id).
CreateRefreshToken(tokens, accts, params, dbNow) ==
  IF \E t \in tokens : t.token = params.Token
    THEN LET old == CHOOSE t \in tokens : t.token = params.Token
         IN  [tokens |-> (tokens \ {old}) \cup
                           {[old EXCEPT !.expires_at = params.ExpiresAt,
                                        !.created_at = dbNow]},
              err |-> ""]
    ELSE IF ~\E a \in accts : a.id = params.AccountID
      THEN [tokens |-> tokens, err |-> "error creating refresh token"]
      ELSE [tokens |-> tokens \cup
                         {[token |-> params.Token, account_id |-> params.AccountID,
                           expires_at |-> params.ExpiresAt, created_at |-> dbNow]},
            err |-> ""]

\* A lookup that answers with some stored row when the token is not stored.
GetRefreshTokenAny(tokens, token) ==
  IF \E t \in tokens : t.token = token
    THEN [row |-> CHOOSE t \in tokens : t.token = token, err |-> ""]
    ELSE IF tokens # {}
      THEN [row |-> CHOOSE t \in tokens : TRUE, err |-> ""]
      ELSE [row |-> NoRefreshToken, err |-> "ErrRefreshTokenNotFound"]

\* getRefreshTokenSQL: WHERE token = $1, whatever the expiry.
GetRefreshToken(tokens, token) ==
  IF \E t \in tokens : t.token = token
    THEN [row |-> CHOOSE t \in tokens : t.token = token, err |-> ""]
    ELSE [row |-> NoRefreshToken, err |-> "ErrRefreshTokenNotFound"]

\* A delete that removes one row of the account and keeps its siblings.
DeleteRefreshTokenOne(tokens, accountID) ==
  IF \E t \in tokens : t.account_id = accountID
    THEN [tokens |-> tokens \ {CHOOSE t \in tokens : t.account_id = accountID},
          err |-> ""]
    ELSE [tokens |-> tokens, err |-> ""]

\* A delete that reports success and removes nothing.
DeleteRefreshTokenNone(tokens, accountID) == [tokens |-> tokens, err |-> ""]

\* A delete without its WHERE clause: it empties the table.
DeleteRefreshTokenEveryAccount(tokens, accountID) == [tokens |-> {}, err |-> ""]

\* deleteRefreshTokenSQL: DELETE ... WHERE account_id = $1.
DeleteRefreshToken(tokens, accountID) ==
  [tokens |-> {t \in tokens : t.account_id # accountID}, err |-> ""]

(***************************************************************************)
(* internal/service/auth: the token issuer.                                *)
(***************************************************************************)
\* time.Duration is a signed 64-bit count of nanoseconds, which holds about
\* 153,722,867 minutes either way; the Duration of the model holds
\* MaxDurationMinutes, and a product beyond that wraps around as in Go.
MaxDurationMinutes == 2047

\* time.Minute * time.Duration(ttl), in minutes.
Minutes(ttl) ==
  ((ttl + MaxDurationMinutes + 1) % (2 * (MaxDurationMinutes + 1)))
    - (MaxDurationMinutes + 1)

\* An issuer that gives the refresh token the access token's TTL.
NewRefreshTokenAccessTTL(cfg, uuid, timeNow) ==
  [token |-> uuid, expiresAt |-> timeNow + Minutes(cfg.AccessTokenTTLMinutes)]

\* An issuer whose token string is the same at every call.
NewRefreshTokenSameString(cfg, uuid, timeNow) ==
  [token |-> 1, expiresAt |-> timeNow + Minutes(cfg.RefreshTokenTTLMinutes)]

\* uuid.NewString() and now + TTL.
NewRefreshToken(cfg, uuid, timeNow) ==
  [token |-> uuid, expiresAt |-> timeNow + Minutes(cfg.RefreshTokenTTLMinutes)]

\* The block of HMAC-SHA256, in bytes.
HMACBlockSize == 64

\* crypto/hmac: a key no longer than the block is padded with zero bytes to
\* the block size, and the padded block is what keys the MAC.  (A longer
\* key is hashed first; the secrets of the model are short.)
HMACKey(key) ==
  [i \in 1..HMACBlockSize |-> IF i <= Len(key) THEN key[i] ELSE NUL]

\* SigningMethodHS256 on the encoded header and claims, which the token
\* carries next to the signature: the MAC is told from another by its key.
SignedString(key) == HMACKey(key)

\* SigningMethodHMAC.Verify: the MAC recomputed under key equals the one in
\* the token.
Verify(token, key) == token.sig # <<>> /\ token.sig = SignedString(key)

\* An issuer that signs every token for the account with id 1.
NewAccessTokenFirstAccount(cfg, accountID, uuid, timeNow, signErr) ==
  IF signErr
    THEN [token |-> NoAccessToken, expiresAt |-> 0, err |-> "error signing token"]
    ELSE [token |-> [account_id |-> 1, iss |-> "account-management",
                     iat |-> timeNow,
                     exp |-> timeNow + Minutes(cfg.AccessTokenTTLMinutes), jti |-> uuid,
                     sig |-> SignedString(cfg.JWTSecretKey)],
          expiresAt |-> timeNow + Minutes(cfg.AccessTokenTTLMinutes), err |-> ""]

\* An issuer that signs with a key of its own, whatever the configured one.
NewAccessTokenOwnKey(cfg, accountID, uuid, timeNow, signErr) ==
  IF signErr
    THEN [token |-> NoAccessToken, expiresAt |-> 0, err |-> "error signing token"]
    ELSE [token |-> [account_id |-> accountID, iss |-> "account-management",
                     iat |-> timeNow,
                     exp |-> timeNow + Minutes(cfg.AccessTokenTTLMinutes), jti |-> uuid,
                     sig |-> SignedString(<<"o", "w", "n">>)],
          expiresAt |-> timeNow + Minutes(cfg.AccessTokenTTLMinutes), err |-> ""]

\* The claims of the JWT, its signature and its expiry; signing may return
\* an error.
NewAccessToken(cfg, accountID, uuid, timeNow, signErr) ==
  IF signErr
    THEN [token |-> NoAccessToken, expiresAt |-> 0, err |-> "error signing token"]
    ELSE [token |-> [account_id |-> accountID, iss |-> "account-management",
                     iat |-> timeNow,
                     exp |-> timeNow + Minutes(cfg.AccessTokenTTLMinutes), jti |-> uuid,
                     sig |-> SignedString(cfg.JWTSecretKey)],
          expiresAt |-> timeNow + Minutes(cfg.AccessTokenTTLMinutes), err |-> ""]

\* A comparison that takes the instant u itself to be past t.
BeforeOrEqual(t, u) == t <= u

\* time.Time.Before
Before(t, u) == t < u

ParseNoExpiry(token, timeNow) == token # NoAccessToken

\* jwt.Parse with the client's key: a signed token is accepted while the
\* clock is before its exp claim; nothing but the token and the clock is read.
Parse(token, timeNow) == token # NoAccessToken /\ Before(timeNow, token.exp)

(***************************************************************************)
(* State.                                                                  *)
(***************************************************************************)
VARIABLES
  accounts,        \* the accounts table: rows [id, email, password_hash]
  refresh_tokens,  \* the refresh_tokens table: rows [token, account_id, expires_at, created_at]
  now,             \* the clock read by time.Now() and by the database's NOW()
  config,          \* auth.Config of the auth client, fixed at construction
  nextToken,       \* the next uuid NewRefreshToken draws
  reqs,            \* the requests in flight, one per slot, with their locals
  arrived,         \* how many requests have arrived so far
  deleted,         \* history: the token strings a DeleteRefreshToken removed
  scen,            \* history: how far the last completed requests follow
                   \* Login -> R1, Refresh(R1) -> R2, Logout(R2), Refresh(R1)
  call             \* the last direct call of a package function, as the
                   \* package tests make them: its arguments and its result

vars == <<accounts, refresh_tokens, now, config, nextToken, reqs, arrived, deleted, scen, call>>

Idle ==
  [op |-> "none", pc |-> "idle", email |-> <<>>, password |-> <<>>,
   refresh_token |-> 0, row |-> NoRefreshToken, accountID |-> 0,
   refreshToken |-> 0, refreshTokenExpiresAt |-> 0,
   accessToken |-> NoAccessToken, accessTokenExpiresAt |-> 0,
   w |-> NewResponseWriter,
   err |-> ""]     \* history: the failure the environment dealt this request

NoScen == [phase |-> 0, R1 |-> 0, R2 |-> 0, logoutCode |-> 0, logoutStatus |-> "",
           finalCode |-> 0, finalStatus |-> "", finalType |-> ""]

\* The scenario monitor: q is the request that has just completed.  The
\* scenario goes on only while the store, the signer and the decoder work.
ScenStep(s, q) ==
  IF q.op = "login" /\ q.w.code = 200 /\ q.w.body.message = "Success"
    THEN [NoScen EXCEPT !.phase = 1, !.R1 = q.w.body.refresh_token]
  ELSE IF /\ s.phase = 1 /\ q.op = "refresh" /\ q.refresh_token = s.R1
          /\ q.w.code = 200 /\ q.w.body.message = "Success"
    THEN [s EXCEPT !.phase = 2, !.R2 = q.w.body.refresh_token]
  ELSE IF s.phase = 2 /\ q.op = "logout" /\ q.refresh_token = s.R2 /\ q.err = ""
    THEN [s EXCEPT !.phase = 3, !.logoutCode = q.w.code,
                   !.logoutStatus = q.w.body.http_status]
  ELSE IF s.phase = 3 /\ q.op = "refresh" /\ q.refresh_token = s.R1 /\ q.err = ""
    THEN [s EXCEPT !.phase = 4, !.finalCode = q.w.code,
                   !.finalStatus = q.w.body.http_status,
                   !.finalType = q.w.body.type]
  ELSE NoScen

NoCall == [fn |-> "", args |-> <<>>, result |-> <<>>]

Init ==
  /\ accounts = {}
  /\ refresh_tokens = {}
  /\ now = 0
  /\ config \in {Load(env) : env \in Envs}
  /\ nextToken = 1
  /\ reqs = [r \in Reqs |-> Idle]
  /\ arrived = 0
  /\ deleted = {}
  /\ scen = NoScen
  /\ call = NoCall

Free(r) == reqs[r].pc = "idle"

\* A response has just been written and its handler has not returned yet.
Responding == \E q \in Reqs : reqs[q].pc = "done"

\* A request takes the lowest free slot.
CanStart(r) ==
  /\ arrived < MaxRequests
  /\ ~Responding /\ Free(r) /\ \A q \in Reqs : q < r => ~Free(q)

\* No request is in flight.
Quiet == \A q \in Reqs : Free(q)

\* Requests that will still draw a refresh-token uuid.
Issuing ==
  {q \in Reqs : reqs[q].pc \in {"checkExpiry", "issue"}}

CanIssue == nextToken + Cardinality(Issuing) <= MaxTokens

\* The token strings a client can present: "" (0) and the uuids minted so far.
Presentable == 0..(nextToken - 1)

\* Slot r goes on as q; a completed request advances the scenario monitor.
Becomes(r, q) ==
  /\ reqs' = [reqs EXCEPT ![r] = q]
  /\ arrived' = IF reqs[r].pc = "idle" THEN arrived + 1 ELSE arrived
  /\ scen' = IF q.pc = "done" THEN ScenStep(scen, q) ELSE scen
  /\ UNCHANGED call

Failed(q, message, type, statusCode) ==
  [q EXCEPT !.pc = "done",
            !.w = WriteErrorResponse(q.w, ErrorResponse(message, type, statusCode))]

\* The request q after a store call, the signer or the decoder failed on it.
Hit(q, failure) == [q EXCEPT !.err = failure]

Tick ==
  /\ ~Responding
  /\ now < MaxTime
  /\ now' = now + 1
  /\ UNCHANGED <<accounts, refresh_tokens, config, nextToken, reqs, arrived, deleted, scen, call>>

\* json.Decode fails in any of the four handlers.
BadRequest(r) ==
  /\ CanStart(r)
  /\ \E op \in {"register", "login", "refresh", "logout"} :
       Becomes(r, Failed(Hit([Idle EXCEPT !.op = op], "decode"),
                         "error reading request body", "", 400))
  /\ UNCHANGED <<accounts, refresh_tokens, now, config, nextToken, deleted>>

NewAccountID(accts) == Cardinality(accts) + 1

\* handler.register: one store call, so the handler is one step.
Register(r) ==
  /\ CanStart(r)
  /\ \E email \in Emails, password \in RegisterPasswords, dbErr \in BOOLEAN :
       LET p == [Idle EXCEPT !.op = "register", !.email = email,
                             !.password = password]
           hashed == HashPassword(password)
           q == [p EXCEPT !.password = <<>>]   \* reqBody.Password = ""
           res == CreateAccount(accounts,
                                [Email |-> email, PasswordHash |-> hashed.hash],
                                NewAccountID(accounts))
       IN  IF ~IsValidEmail(email)
             THEN /\ Becomes(r, Failed(p, "The provided email address is invalid",
                                       "validation_error", 422))
                  /\ UNCHANGED accounts
           ELSE IF hashed.err # ""
             THEN /\ Becomes(r, Failed(p, Error(hashed.err), "validation_error", 422))
                  /\ UNCHANGED accounts
           ELSE IF dbErr
             THEN /\ Becomes(r, Failed(Hit(q, "store"),
                                       "There was an unexpected error creating the account",
                                       "", 500))
                  /\ UNCHANGED accounts
           ELSE IF res.err = "ErrAccountAlreadyExists"
             THEN /\ Becomes(r, Failed(q, "An account with this email already exists",
                                       "account_already_exists", 409))
                  /\ UNCHANGED accounts
           ELSE /\ accounts' = res.accounts
                /\ Becomes(r, [q EXCEPT !.pc = "done", !.accountID = res.account.id,
                                 !.w = WriteJSONResponse(q.w, 201,
                                         [EmptyBody EXCEPT
                                            !.message = "Account created successfully",
                                            !.account_id = res.account.id])])
  /\ UNCHANGED <<refresh_tokens, now, config, nextToken, deleted>>

\* handler.login up to the password check: the body decodes, GetAccount is
\* the handler's first meeting with the store.
Login(r) ==
  /\ CanStart(r) /\ CanIssue
  /\ \E email \in Emails, password \in LoginPasswords, dbErr \in BOOLEAN :
       LET q == [Idle EXCEPT !.op = "login", !.email = email, !.password = password]
           res == GetAccount(accounts, q.email)
       IN  IF dbErr
             THEN Becomes(r, Failed(Hit(q, "store"),
                                    "There was an unexpected error logging in", "", 500))
           ELSE IF res.err = "ErrAccountNotFound"
             THEN Becomes(r, Failed(q, "No account was found matching this email",
                                    "account_not_found", 401))
           ELSE IF ~PasswordIsCorrect(q.password, res.account.password_hash)
             THEN Becomes(r, Failed(q, "Password is incorrect", "incorrect_password", 401))
           ELSE Becomes(r, [q EXCEPT !.pc = "issue", !.password = <<>>,
                                     !.accountID = res.account.id])
  /\ UNCHANGED <<accounts, refresh_tokens, now, config, nextToken, deleted>>

\* handler.refresh up to GetRefreshToken, its first meeting with the store.
Refresh(r) ==
  /\ CanStart(r) /\ CanIssue
  /\ \E token \in Presentable, dbErr \in BOOLEAN :
       LET q == [Idle EXCEPT !.op = "refresh", !.refresh_token = token]
           res == GetRefreshToken(refresh_tokens, q.refresh_token)
       IN  IF dbErr
             THEN Becomes(r, Failed(Hit(q, "store"), "Error validating session", "", 500))
           ELSE IF res.err = "ErrRefreshTokenNotFound"
             THEN Becomes(r, Failed(q, "Your session has expired",
                                    "invalid_refresh_token", 401))
           ELSE Becomes(r, [q EXCEPT !.pc = "checkExpiry", !.row = res.row])
  /\ UNCHANGED <<accounts, refresh_tokens, now, config, nextToken, deleted>>

\* handler.refresh: token.ExpiresAt.Before(time.Now()).
RefreshCheckExpiry(r) ==
  /\ reqs[r].op = "refresh" /\ reqs[r].pc = "checkExpiry"
  /\ LET q == reqs[r]
     IN  IF Before(q.row.expires_at, now)
           THEN Becomes(r, Failed(q, "Your session has expired",
                                  "invalid_refresh_token", 401))
           ELSE Becomes(r, [q EXCEPT !.pc = "issue", !.accountID = q.row.account_id])
  /\ UNCHANGED <<accounts, refresh_tokens, now, config, nextToken, deleted>>

\* generateAndPersistTokens: NewRefreshToken and CreateRefreshToken.  A uuid
\* whose row was not stored is seen by nobody, so its number is drawn again.
Issue(r) ==
  /\ reqs[r].pc = "issue"
  /\ \E dbErr \in BOOLEAN :
       LET q == reqs[r]
           rt == NewRefreshToken(config, nextToken, now)
           res == CreateRefreshToken(refresh_tokens, accounts,
                                     [Token |-> rt.token, AccountID |-> q.accountID,
                                      ExpiresAt |-> rt.expiresAt], now)
       IN  IF dbErr \/ res.err # ""
             THEN /\ Becomes(r, Failed(IF dbErr THEN Hit(q, "store") ELSE q,
                                       "Error creating new token", "", 500))
                  /\ UNCHANGED <<refresh_tokens, nextToken>>
             ELSE /\ refresh_tokens' = res.tokens
                  /\ nextToken' = nextToken + 1
                  /\ Becomes(r, [q EXCEPT !.pc = "sign", !.refreshToken = rt.token,
                                          !.refreshTokenExpiresAt = rt.expiresAt])
  /\ UNCHANGED <<accounts, now, config, deleted>>

\* generateAndPersistTokens: NewAccessToken.  The jti is the uuid drawn after
\* the refresh token's; it is written with the same number, the two kinds of
\* uuid never being compared.
Sign(r) ==
  /\ reqs[r].pc = "sign"
  /\ \E signErr \in BOOLEAN :
       LET q == reqs[r]
           at == NewAccessToken(config, q.accountID, q.refreshToken, now, signErr)
       IN  IF at.err # ""
             THEN Becomes(r, Failed(Hit(q, "sign"), "Error creating new token", "", 500))
             ELSE Becomes(r, [q EXCEPT !.pc = "respond", !.accessToken = at.token,
                                       !.accessTokenExpiresAt = at.expiresAt])
  /\ UNCHANGED <<accounts, refresh_tokens, now, config, nextToken, deleted>>

\* The milliseconds of a minute, the unit of the model's clock.
MillisPerMinute == 60000

\* time.Time.Sub on the clock of the model, which counts minutes: the
\* Duration between the two instants, in milliseconds.
Sub(t, u) == (t - u) * MillisPerMinute

\* int(d.Seconds()): the seconds of the Duration d, of which the conversion
\* to int drops the fraction, toward zero.
ExpiresIn(d) == IF d >= 0 THEN d \div 1000 ELSE -((-d) \div 1000)

\* generateAndPersistTokens returns and login/refresh write the 200 response.
Respond(r) ==
  /\ reqs[r].op \in {"login", "refresh"} /\ reqs[r].pc = "respond"
  /\ LET q == reqs[r]
         response == [EmptyBody EXCEPT
                        !.message = "Success",
                        !.account_id = q.accountID,
                        !.access_token = q.accessToken,
                        !.refresh_token = q.refreshToken,
                        !.token_type = "Bearer",
                        !.expires_in = ExpiresIn(Sub(q.accessTokenExpiresAt, now))]
     IN  Becomes(r, [q EXCEPT !.pc = "done",
                              !.w = WriteJSONResponse(q.w, 200, response)])
  /\ UNCHANGED <<accounts, refresh_tokens, now, config, nextToken, deleted>>

LoggedOut == [EmptyBody EXCEPT !.message = "Logged out successfully"]

\* handler.logout up to GetRefreshToken, its first meeting with the store.
Logout(r) ==
  /\ CanStart(r)
  /\ \E token \in Presentable, dbErr \in BOOLEAN :
       LET q == [Idle EXCEPT !.op = "logout", !.refresh_token = token]
           res == GetRefreshToken(refresh_tokens, q.refresh_token)
       IN  IF dbErr
             THEN Becomes(r, Failed(Hit(q, "store"),
                                    "There was an unexpected error logging out", "", 500))
           ELSE IF res.err = "ErrRefreshTokenNotFound"
             THEN Becomes(r, [q EXCEPT !.pc = "done",
                                       !.w = WriteJSONResponse(q.w, 200, LoggedOut)])
           ELSE Becomes(r, [q EXCEPT !.pc = "delete", !.row = res.row,
                                     !.accountID = res.row.account_id])
  /\ UNCHANGED <<accounts, refresh_tokens, now, config, nextToken, deleted>>

\* handler.logout: DeleteRefreshToken(token.AccountID).
LogoutDelete(r) ==
  /\ reqs[r].op = "logout" /\ reqs[r].pc = "delete"
  /\ \E dbErr \in BOOLEAN :
       LET q == reqs[r]
           res == DeleteRefreshToken(refresh_tokens, q.row.account_id)
       IN  IF dbErr
             THEN /\ Becomes(r, Failed(Hit(q, "store"),
                                       "There was an unexpected error logging out", "", 500))
                  /\ UNCHANGED <<refresh_tokens, deleted>>
             ELSE /\ refresh_tokens' = res.tokens
                  /\ deleted' = deleted \cup
                                  {t.token : t \in refresh_tokens \ res.tokens}
                  /\ Becomes(r, [q EXCEPT !.pc = "respond"])
  /\ UNCHANGED <<accounts, now, config, nextToken>>

\* handler.logout: the 200 response after the delete.
LogoutRespond(r) ==
  /\ reqs[r].op = "logout" /\ reqs[r].pc = "respond"
  /\ Becomes(r, [reqs[r] EXCEPT !.pc = "done",
                                !.w = WriteJSONResponse(reqs[r].w, 200, LoggedOut)])
  /\ UNCHANGED <<accounts, refresh_tokens, now, config, nextToken, deleted>>

\* A request arrives.
Start(r) ==
  \/ BadRequest(r)
  \/ Register(r)
  \/ Login(r)
  \/ Refresh(r)
  \/ Logout(r)

\* The handler returns once the response is written: the state in which
\* reqs[r].pc = "done" is the moment the response is returned.
Return(r) ==
  /\ reqs[r].pc = "done"
  /\ reqs' = [reqs EXCEPT ![r] = Idle]
  /\ UNCHANGED <<accounts, refresh_tokens, now, config, nextToken, arrived, deleted, scen, call>>

\* A request in flight takes its next step.
Step(r) ==
  \/ Return(r)
  \/ ~Responding /\ RefreshCheckExpiry(r)
  \/ ~Responding /\ Issue(r)
  \/ ~Responding /\ Sign(r)
  \/ ~Responding /\ Respond(r)
  \/ ~Responding /\ LogoutDelete(r)
  \/ ~Responding /\ LogoutRespond(r)

\* Requests are served in parallel, one goroutine each.
Next == Tick \/ \E r \in Reqs : Start(r) \/ Step(r)

Spec == Init /\ [][Next]_vars

\* Requests arrive one after the other: none starts while another is in flight.
NextSeq == Tick \/ \E r \in Reqs : (Quiet /\ Start(r)) \/ Step(r)

SeqSpec == Init /\ [][NextSeq]_vars

(***************************************************************************)
(* The packages called directly, the way their tests call them: one call   *)
(* per step, on the same tables and clock.                                 *)
(***************************************************************************)
MaxCallTokens == 2      \* token strings the direct calls draw from
MaxCallAccounts == 3    \* account ids the direct calls name; two can exist

Pad(n) == [i \in 1..n |-> "a"]
Pw7 == <<"A", "a", "1", "!", "b", "c", "d">>
Pw72 == PwOther \o Pad(BcryptKeyBytes - Len(PwOther))
Pw73 == Pw72 \o <<"a">>
Pw73Lower == Pad(BcryptKeyBytes + 1)
PwNoUpper == <<"a", "a", "1", "!", "b", "c", "d", "e">>
PwNoLower == <<"A", "A", "1", "!", "B", "C", "D", "E">>
PwNoDigit == <<"A", "a", "b", "!", "b", "c", "d", "e">>
PwNoSpecial == <<"A", "a", "1", "b", "b", "c", "d", "e">>
TestPasswords ==
  {PwGood, PwOther, PwWeak, Pw7, Pw72, Pw73, Pw73Lower,
   PwNoUpper, PwNoLower, PwNoDigit, PwNoSpecial}

\* Passwords offered for verification: any string, valid or not.
Pw72X == Pw72 \o <<"x">>
PwTwice == PwOther \o <<NUL>> \o PwOther
VerifyPasswords == TestPasswords \cup {Pw72X, PwTwice, <<>>}

Called(fn, args, result) ==
  /\ call' = [fn |-> fn, args |-> args, result |-> result]
  /\ UNCHANGED <<now, config, nextToken, reqs, arrived, deleted, scen>>

CallLoad ==
  /\ \E env \in Envs : Called("Load", env, Load(env))
  /\ UNCHANGED <<accounts, refresh_tokens>>

CallWriteErrorResponse ==
  /\ \E statusCode \in {0, 400, 401, 409, 422, 500} :
       LET httpErr == ErrorResponse("m", "", statusCode)
       IN  Called("WriteErrorResponse", httpErr,
                  WriteErrorResponse(NewResponseWriter, httpErr))
  /\ UNCHANGED <<accounts, refresh_tokens>>

CallValidatePassword ==
  /\ \E password \in TestPasswords :
       Called("validatePassword", password, validatePassword(password))
  /\ UNCHANGED <<accounts, refresh_tokens>>

CallHashPassword ==
  /\ \E password \in TestPasswords :
       Called("HashPassword", password, HashPassword(password))
  /\ UNCHANGED <<accounts, refresh_tokens>>

\* PasswordIsCorrect(P2, h) for the hash h that HashPassword(P) returned.
CallPasswordIsCorrect ==
  /\ \E P \in TestPasswords, P2 \in VerifyPasswords :
       Called("PasswordIsCorrect",
              [P |-> P, P2 |-> P2, hashedPassword |-> HashPassword(P).hash],
              PasswordIsCorrect(P2, HashPassword(P).hash))
  /\ UNCHANGED <<accounts, refresh_tokens>>

CallCreateAccount ==
  /\ \E email \in {EmailA, EmailB} :
       LET params == [Email |-> email, PasswordHash |-> HashPassword(PwGood).hash]
           res == CreateAccount(accounts, params, NewAccountID(accounts))
       IN  /\ accounts' = res.accounts
           /\ Called("CreateAccount", params, [account |-> res.account, err |-> res.err])
  /\ UNCHANGED refresh_tokens

CallCreateRefreshToken ==
  \E token \in 1..MaxCallTokens, accountID \in 1..MaxCallAccounts,
     expiresAt \in {now, now + 1} :
    LET params == [Token |-> token, AccountID |-> accountID, ExpiresAt |-> expiresAt]
        res == CreateRefreshToken(refresh_tokens, accounts, params, now)
    IN  /\ refresh_tokens' = res.tokens
        /\ Called("CreateRefreshToken", params, res.err)
        /\ UNCHANGED accounts

CallDeleteRefreshToken ==
  \E accountID \in 1..MaxCallAccounts :
    LET res == DeleteRefreshToken(refresh_tokens, accountID)
    IN  /\ refresh_tokens' = res.tokens
        /\ Called("DeleteRefreshToken", accountID, res.err)
        /\ UNCHANGED accounts

\* Secrets and TTLs the issuer is constructed with in direct calls.
SecretNul == Secret \o <<NUL>>
SecretOther == <<"w">>
Secrets == {Secret, SecretNul, SecretOther}
TestTTLs == {-1, 0, 15}

\* NewClient(Config{...})
NewClient(secret, ttl) ==
  [JWTSecretKey |-> secret, AccessTokenTTLMinutes |-> ttl,
   RefreshTokenTTLMinutes |-> DefaultRefreshTokenTTLMinutes]

\* client.NewAccessToken(Claims{AccountID}); 0 is the empty account id.
CallNewAccessToken ==
  /\ \E secret \in Secrets, ttl \in TestTTLs, accountID \in {0, 1},
        signErr \in BOOLEAN :
       LET cfg == NewClient(secret, ttl)
       IN  Called("NewAccessToken",
                  [cfg |-> cfg, accountID |-> accountID, uuid |-> nextToken,
                   timeNow |-> now],
                  NewAccessToken(cfg, accountID, nextToken, now, signErr))
  /\ UNCHANGED <<accounts, refresh_tokens>>

\* jwt.Parse's signature check under key of a token signed under secret.
CallVerify ==
  /\ \E secret \in Secrets, key \in Secrets :
       LET token == NewAccessToken(NewClient(secret, DefaultAccessTokenTTLMinutes),
                                   1, nextToken, now, FALSE).token
       IN  Called("Verify", [secret |-> secret, key |-> key, token |-> token],
                  Verify(token, key))
  /\ UNCHANGED <<accounts, refresh_tokens>>

\* Access TTLs for the expires_in of a response, the two outermost beyond
\* what a Duration holds, and the milliseconds that pass between the minting
\* of the access token and the construction of the response.
ExpiryTTLs ==
  {-(MaxDurationMinutes + 2), -1, 0, 1, DefaultAccessTokenTTLMinutes,
   MaxDurationMinutes + 1}
ElapsedMillis == {0, 300, 1500, 61000}

\* The end of generateAndPersistTokens: NewAccessToken, a second reading of
\* the clock, and expires_in.
CallExpiresIn ==
  /\ \E ttl \in ExpiryTTLs, elapsed \in ElapsedMillis :
       LET at == NewAccessToken(NewClient(Secret, ttl), 1, nextToken, now, FALSE)
           d == Sub(at.expiresAt, now) - elapsed
       IN  Called("ExpiresIn", [ttl |-> ttl, elapsed |-> elapsed, d |-> d],
                  ExpiresIn(d))
  /\ UNCHANGED <<accounts, refresh_tokens>>

\* The functions of auth, config and httputils, which touch no table.
UnitNext ==
  \/ Tick
  \/ CallLoad
  \/ CallWriteErrorResponse
  \/ CallValidatePassword
  \/ CallHashPassword
  \/ CallPasswordIsCorrect
  \/ CallNewAccessToken
  \/ CallVerify
  \/ CallExpiresIn

UnitSpec == Init /\ [][UnitNext]_vars

\* The statements of internal/database on the two tables.
StoreNext ==
  \/ Tick
  \/ CallCreateAccount
  \/ CallCreateRefreshToken
  \/ CallDeleteRefreshToken

StoreSpec == Init /\ [][StoreNext]_vars

(***************************************************************************)
(* Properties of the session store and of the token lifecycle.             *)
(***************************************************************************)
\* The rows of account a in a refresh_tokens table.
TokensOf(tokens, a) == {t \in tokens : t.account_id = a}

\* A row is live while its expiry is not in the past.
Live(t) == ~Before(t.expires_at, now)

AccountIDs == {a.id : a \in accounts}

\* C1 as stated: in every reachable state each account owns at most one live
\* (unexpired) refresh token.
C1_AtMostOneLiveToken ==
  \A a \in AccountIDs :
    Cardinality({t \in TokensOf(refresh_tokens, a) : Live(t)}) <= 1

\* C1 as the code has it: an account can own several live refresh tokens.  No
\* step removes or changes a row of an account while keeping another row of
\* it: issuance (Login, Refresh) only adds rows, and the only removal is the
\* account-wide delete of Logout, which leaves the account no row at all.
C1_RowsLeaveOnlyByAccountWideDelete ==
  [][\A a \in AccountIDs :
       \/ TokensOf(refresh_tokens, a) \subseteq TokensOf(refresh_tokens', a)
       \/ /\ TokensOf(refresh_tokens', a) = {}
          /\ \E r \in Reqs : /\ reqs[r].op = "logout" /\ reqs[r].pc = "delete"
                             /\ reqs'[r].pc = "respond"
                             /\ reqs[r].row.account_id = a]_vars

\* An account owns two live refresh tokens, the second issued by a Refresh.
C1_Witness ==
  \E a \in AccountIDs, r \in Reqs :
    /\ Cardinality({t \in TokensOf(refresh_tokens, a) : Live(t)}) >= 2
    /\ reqs[r].op = "refresh" /\ reqs[r].pc = "sign" /\ reqs[r].accountID = a

\* C2: when Logout(T) found T and DeleteRefreshToken succeeds, the store holds
\* right after the delete no refresh token, live or expired, of T's account.
C2_LogoutDeletesEveryTokenOfAccount ==
  [][\A r \in Reqs :
       (/\ reqs[r].op = "logout" /\ reqs[r].pc = "delete"
        /\ reqs'[r].pc = "respond")
       => /\ TokensOf(refresh_tokens', reqs[r].row.account_id) = {}
          /\ \A t \in refresh_tokens' : t.token # reqs[r].refresh_token]_vars

\* A Logout has just deleted two tokens of one account, one of them expired.
C2_Witness ==
  \E r \in Reqs :
    /\ reqs[r].op = "logout" /\ reqs[r].pc = "respond"
    /\ arrived = 4 /\ Cardinality(deleted) = 2 /\ now = 1
    /\ Before(reqs[r].row.expires_at, now)
    /\ TokensOf(refresh_tokens, reqs[r].row.account_id) = {}

Refreshed(r) ==
  /\ reqs[r].op = "refresh" /\ reqs[r].pc = "done"
  /\ reqs[r].w.code = 200 /\ reqs[r].w.body.message = "Success"

\* C4 as stated: whenever Refresh(T) responds 200 with T', GetRefreshToken(T')
\* finds at that moment a row whose expiry is not in the past, in every
\* interleaving and for every refresh TTL.
C4_NewTokenStoredAndLiveAtReturn ==
  \A r \in Reqs :
    Refreshed(r)
    => LET res == GetRefreshToken(refresh_tokens, reqs[r].w.body.refresh_token)
       IN  res.err = "" /\ ~Before(res.row.expires_at, now)

\* C4 as the code has it: whenever Refresh(T) responds 200 with T', a row for
\* T' was stored for T's account with expiry = time of storing + refresh TTL.
\* When the response is returned GetRefreshToken(T') finds that row unless a
\* Logout deleted the account's tokens in between, and the row is unexpired
\* unless more than the refresh TTL has passed since it was stored.
C4_NewTokenStoredUnlessLoggedOut ==
  \A r \in Reqs :
    Refreshed(r)
    => LET T1 == reqs[r].w.body.refresh_token
           res == GetRefreshToken(refresh_tokens, T1)
       IN  /\ T1 # 0 /\ T1 # reqs[r].refresh_token
           /\ res.err = "" \/ T1 \in deleted
           /\ res.err = ""
              => /\ res.row.account_id = reqs[r].row.account_id
                 /\ res.row.expires_at = reqs[r].refreshTokenExpiresAt
                 /\ res.row.expires_at =
                      res.row.created_at + config.RefreshTokenTTLMinutes
                 /\ Before(res.row.expires_at, now)
                    <=> now - res.row.created_at > config.RefreshTokenTTLMinutes

\* A Refresh returns 200 with a token that a concurrent Logout has deleted
\* after it was stored.
C4_Witness ==
  \E r \in Reqs :
    /\ Refreshed(r)
    /\ reqs[r].w.body.refresh_token \in deleted
    /\ GetRefreshToken(refresh_tokens, reqs[r].w.body.refresh_token).err
         = "ErrRefreshTokenNotFound"

\* C5 as stated: Refresh(T) for a stored T whose expiry is before the current
\* time responds 401 with type invalid_refresh_token, creates no refresh token,
\* mints no access token and leaves T's row in the store.
C5_ExpiredRefreshRejected401 ==
  [][\A r \in Reqs :
       (/\ reqs[r].op = "refresh" /\ reqs[r].pc = "checkExpiry"
        /\ Before(reqs[r].row.expires_at, now)
        /\ reqs'[r] # reqs[r])
       => /\ reqs'[r].pc = "done"
          /\ reqs'[r].w.code = 401
          /\ reqs'[r].w.body.type = "invalid_refresh_token"
          /\ reqs'[r].w.body.refresh_token = 0
          /\ reqs'[r].w.body.access_token = NoAccessToken
          /\ refresh_tokens' = refresh_tokens /\ nextToken' = nextToken]_vars

\* C6 as stated: Refresh(T) for a T that is not in the store, the empty string
\* included, responds 401 with type invalid_refresh_token and leaves the store
\* unchanged.
C6_UnknownRefreshRejected401 ==
  [][\A r \in Reqs :
       (/\ reqs[r].pc = "idle" /\ reqs'[r].op = "refresh" /\ reqs'[r].err = ""
        /\ GetRefreshToken(refresh_tokens, reqs'[r].refresh_token).err
             = "ErrRefreshTokenNotFound")
       => /\ reqs'[r].pc = "done"
          /\ reqs'[r].w.code = 401
          /\ reqs'[r].w.body.type = "invalid_refresh_token"
          /\ refresh_tokens' = refresh_tokens /\ nextToken' = nextToken]_vars

\* C7 as stated: in the sequential run Login -> R1, Refresh(R1) -> R2,
\* Logout(R2), Refresh(R1), R2 differs from R1, Logout(R2) responds 200 and the
\* final Refresh(R1) responds 401 invalid_refresh_token, R1 having been deleted
\* with R2.
C7_ScenarioEndsWith401 ==
  scen.phase = 4
  => /\ scen.R2 # scen.R1
     /\ scen.logoutCode = 200
     /\ scen.finalCode = 401
     /\ scen.finalType = "invalid_refresh_token"
     /\ {scen.R1, scen.R2} \subseteq deleted

\* C8: a successful Refresh(T) leaves T's row as it is, as every step of a
\* Refresh leaves every stored row; and a Refresh(T) that found T's row and
\* reads the clock before T's expiry succeeds, the store and the signer
\* working, however often T was used before.
C8_RefreshKeepsPresentedToken ==
  [][\A r \in Reqs :
       (reqs'[r].op = "refresh" /\ reqs'[r] # reqs[r])
       => /\ refresh_tokens \subseteq refresh_tokens'
          /\ (/\ reqs'[r].pc = "done" /\ reqs'[r].err = ""
              /\ reqs'[r].row # NoRefreshToken
              /\ ~Before(reqs'[r].row.expires_at, now))
             => /\ reqs'[r].w.code = 200
                /\ reqs'[r].w.body.message = "Success"
                /\ reqs'[r].w.body.refresh_token # reqs'[r].refresh_token]_vars

\* After Login -> R1 and a Refresh(R1) that returned R2, a second Refresh(R1)
\* has stored and signed its tokens, R1's row still being in the store.
C8_Witness ==
  \E r \in Reqs :
    /\ scen.phase = 2
    /\ reqs[r].op = "refresh" /\ reqs[r].pc = "respond"
    /\ reqs[r].refresh_token = scen.R1
    /\ reqs[r].row \in refresh_tokens
    /\ reqs[r].refreshToken \notin {scen.R1, scen.R2}

\* Every Logout that deleted tokens has responded.
LogoutsResponded == \A q \in Reqs : ~(reqs[q].op = "logout" /\ reqs[q].pc = "respond")

\* C9 as stated: after a Logout for account A has responded 200, a Refresh
\* presenting a token of A that was stored before the Logout's delete is
\* rejected with 401 invalid_refresh_token.
C9_RefreshAfterLogoutRejected401 ==
  [][\A r \in Reqs :
       (/\ reqs[r].pc = "idle" /\ reqs'[r].op = "refresh" /\ reqs'[r].err = ""
        /\ reqs'[r].refresh_token \in deleted
        /\ LogoutsResponded)
       => /\ reqs'[r].pc = "done"
          /\ reqs'[r].w.code = 401
          /\ reqs'[r].w.body.type = "invalid_refresh_token"]_vars

\* Two Refresh requests of one account, presenting different tokens neither of
\* which is the token the other request issued, have both stored and signed
\* their new tokens.
BothRefreshed(r, q) ==
  /\ r # q
  /\ reqs[r].op = "refresh" /\ reqs[r].pc = "respond"
  /\ reqs[q].op = "refresh" /\ reqs[q].pc = "respond"
  /\ reqs[r].accountID = reqs[q].accountID
  /\ reqs[r].refresh_token # reqs[q].refresh_token
  /\ reqs[r].refresh_token # reqs[q].refreshToken
  /\ reqs[q].refresh_token # reqs[r].refreshToken

\* C10: two concurrent Refresh requests of one account with two different
\* stored, unexpired tokens are neither serialised nor rejected: both store a
\* new token of their own, the two presented and the two new tokens are four
\* different rows of the account (as long as no Logout deletes them), and
\* each request then responds 200 with its own new token.
C10_ConcurrentRefreshesBothSucceed ==
  [][/\ \A r, q \in Reqs :
          BothRefreshed(r, q)
          => /\ Cardinality({reqs[r].refresh_token, reqs[q].refresh_token,
                             reqs[r].refreshToken, reqs[q].refreshToken}) = 4
             /\ \A T \in {reqs[r].refreshToken, reqs[q].refreshToken} :
                  \/ T \in deleted
                  \/ \E t \in TokensOf(refresh_tokens, reqs[r].accountID) : t.token = T
             /\ \A T \in {reqs[r].refresh_token, reqs[q].refresh_token} :
                  \/ T \in deleted
                  \/ \E t \in TokensOf(refresh_tokens, reqs[r].accountID) : t.token = T
     /\ \A r \in Reqs :
          (reqs[r].op = "refresh" /\ reqs[r].pc = "respond" /\ reqs'[r] # reqs[r])
          => /\ reqs'[r].pc = "done"
             /\ reqs'[r].w.code = 200
             /\ reqs'[r].w.body.message = "Success"
             /\ reqs'[r].w.body.refresh_token = reqs[r].refreshToken]_vars

\* Both requests are about to respond and the account has four rows in the
\* store: the two tokens presented and the two new ones.
C10_Witness ==
  \E r, q \in Reqs :
    /\ BothRefreshed(r, q)
    /\ Cardinality(TokensOf(refresh_tokens, reqs[r].accountID)) = 4
    /\ {reqs[r].refresh_token, reqs[q].refresh_token,
        reqs[r].refreshToken, reqs[q].refreshToken}
         = {t.token : t \in TokensOf(refresh_tokens, reqs[r].accountID)}
    /\ \A t \in TokensOf(refresh_tokens, reqs[r].accountID) : Live(t)

\* C11 as stated: when a Logout of account A runs concurrently with Refresh
\* requests of A, the store holds no refresh token of A once they have all
\* completed.  The delete removes the rows present when it runs, so this asks
\* that a Refresh whose presented token the Logout has deleted meanwhile
\* stores no new token of A after the delete.
C11_NoTokenStoredAfterLogoutDelete ==
  [][\A r \in Reqs :
       (/\ reqs[r].op = "refresh" /\ reqs[r].pc = "issue"
        /\ reqs[r].refresh_token \in deleted
        /\ reqs'[r] # reqs[r])
       => refresh_tokens' = refresh_tokens]_vars

\* What C12 asks of a response of Login or Refresh: token_type Bearer, an
\* access token, and a refresh token that was stored (and is still stored
\* unless a Logout deleted it) for the response's account_id with expiry =
\* time of minting + refresh TTL.
CarriesIssuedTokens(q) ==
  LET res == GetRefreshToken(refresh_tokens, q.w.body.refresh_token)
  IN  /\ q.w.body.token_type = "Bearer"
      /\ q.w.body.access_token # NoAccessToken
      /\ q.w.body.refresh_token # 0
      /\ q.w.body.account_id # 0
      /\ res.err = "" \/ q.w.body.refresh_token \in deleted
      /\ res.err = ""
         => /\ res.row.account_id = q.w.body.account_id
            /\ res.row.expires_at = res.row.created_at + config.RefreshTokenTTLMinutes

\* C12 as stated: every response of Login or Refresh delivered with status
\* 200 carries token_type Bearer, a non-empty access token and a refresh token
\* persisted before the response for the response's account with expiry =
\* mint time + refresh TTL.
C12_Every200CarriesTokens ==
  \A r \in Reqs :
    (/\ reqs[r].op \in {"login", "refresh"} /\ reqs[r].pc = "done"
     /\ reqs[r].w.code = 200)
    => CarriesIssuedTokens(reqs[r])

\* A response body that carries neither an access nor a refresh token.
NoTokens(q) ==
  /\ q.w.body.access_token = NoAccessToken
  /\ q.w.body.refresh_token = 0
  /\ q.w.body.token_type = ""

\* C13 as stated: in Login and Refresh, when persisting the new refresh token
\* fails, the response is 500 and carries no access or refresh token, no
\* access token is minted and the store is unchanged.
C13_PersistFailureIs500 ==
  [][\A r \in Reqs :
       (reqs[r].pc = "issue" /\ reqs'[r].pc = "done")
       => /\ reqs'[r].w.code = 500
          /\ reqs'[r].w.body.http_status = "Internal Server Error"
          /\ NoTokens(reqs'[r])
          /\ reqs'[r].accessToken = NoAccessToken
          /\ refresh_tokens' = refresh_tokens /\ accounts' = accounts]_vars

\* C14 as stated: in Login and Refresh, when signing the access token fails
\* after the refresh token was persisted, the response is 500 with no tokens,
\* yet the persisted refresh token stays in the store, where a later Refresh
\* finds it.
C14_SignFailureIs500AndOrphans ==
  [][\A r \in Reqs :
       (reqs[r].pc = "sign" /\ reqs'[r].pc = "done")
       => /\ reqs'[r].w.code = 500
          /\ reqs'[r].w.body.http_status = "Internal Server Error"
          /\ NoTokens(reqs'[r])
          /\ refresh_tokens' = refresh_tokens
          /\ \/ reqs[r].refreshToken \in deleted
             \/ \E t \in refresh_tokens' :
                  /\ t.token = reqs[r].refreshToken
                  /\ t.account_id = reqs[r].accountID
                  /\ t.expires_at = reqs[r].refreshTokenExpiresAt]_vars

\* C15 as stated: Login with an email that has no account responds 401 with
\* type account_not_found, Login with an existing email and a password that
\* does not verify against the stored hash responds 401 with type
\* incorrect_password; neither creates a refresh token or changes the store.
C15_LoginErrorsAre401 ==
  [][\A r \in Reqs :
       (reqs[r].pc = "idle" /\ reqs'[r].op = "login" /\ reqs'[r].err = "")
       => LET known == {a \in accounts : a.email = reqs'[r].email}
          IN  /\ known = {}
                 => /\ reqs'[r].pc = "done"
                    /\ reqs'[r].w.code = 401
                    /\ reqs'[r].w.body.type = "account_not_found"
                    /\ NoTokens(reqs'[r])
              /\ (\E a \in known :
                    /\ reqs'[r].password # <<>>   \* blanked once it verified
                    /\ ~PasswordIsCorrect(reqs'[r].password, a.password_hash))
                 => /\ reqs'[r].pc = "done"
                    /\ reqs'[r].w.code = 401
                    /\ reqs'[r].w.body.type = "incorrect_password"
                    /\ NoTokens(reqs'[r])
              /\ refresh_tokens' = refresh_tokens /\ accounts' = accounts
              /\ nextToken' = nextToken]_vars

\* A Register request arrives at slot r, is decoded and meets no store error.
Registers(r) ==
  reqs[r].pc = "idle" /\ reqs'[r].op = "register" /\ reqs'[r].err = ""

\* The handler blanks the plaintext password once it has validated and hashed
\* it: a request whose password is blank has passed both validations.
Validated(q) == q.password = <<>>

\* C16 as stated: Register with an email that already has an account (and a
\* password passing the rules) responds 409 with type account_already_exists,
\* creates no account and leaves the existing account as it is.
C16_DuplicateEmailIs409 ==
  [][\A r \in Reqs :
       (/\ Registers(r) /\ Validated(reqs'[r])
        /\ \E a \in accounts : a.email = reqs'[r].email)
       => /\ reqs'[r].w.code = 409
          /\ reqs'[r].w.body.type = "account_already_exists"
          /\ reqs'[r].w.body.account_id = 0
          /\ accounts' = accounts]_vars

\* C17 as stated: no two accounts ever share an email, and of the Register
\* requests for one email the one that meets no account with it responds 201
\* and creates the account, every other one responds 409.
C17_OneRegisterWinsOthers409 ==
  [][/\ \A a, b \in accounts' : a.email = b.email => a = b
     /\ \A r \in Reqs :
          (Registers(r) /\ Validated(reqs'[r]))
          => IF \E a \in accounts : a.email = reqs'[r].email
               THEN reqs'[r].w.code = 409 /\ accounts' = accounts
               ELSE /\ reqs'[r].w.code = 201
                    /\ \E a \in accounts' \ accounts :
                         /\ accounts' = accounts \cup {a}
                         /\ a.email = reqs'[r].email
                         /\ a.id = reqs'[r].w.body.account_id]_vars

\* C18 as stated: Register validates the email first and the password second,
\* before any store call: an invalid email or a password failing the rules
\* yields 422 with type validation_error and no account is created; with both
\* invalid the email error is the one reported.
C18_ValidationErrorsAre422 ==
  [][\A r \in Reqs :
       Registers(r)
       => /\ ~IsValidEmail(reqs'[r].email)
             => /\ reqs'[r].w.code = 422
                /\ reqs'[r].w.body.type = "validation_error"
                /\ reqs'[r].w.body.message = "The provided email address is invalid"
                /\ accounts' = accounts
          /\ (/\ IsValidEmail(reqs'[r].email) /\ ~Validated(reqs'[r])
              /\ validatePassword(reqs'[r].password) # "")
             => /\ reqs'[r].w.code = 422
                /\ reqs'[r].w.body.type = "validation_error"
                /\ reqs'[r].w.body.message = Error(validatePassword(reqs'[r].password))
                /\ accounts' = accounts
          /\ \A a \in accounts' :
               /\ IsValidEmail(a.email)
               /\ \E password \in RegisterPasswords :
                    /\ validatePassword(password) = ""
                    /\ PasswordIsCorrect(password, a.password_hash)]_vars

\* C19: Logout(T) for a token string T that is not in the store responds 200
\* "Logged out successfully" at once: DeleteRefreshToken is not called and
\* every refresh token row stays as it is.
C19_LogoutOfUnknownTokenDeletesNothing ==
  [][\A r \in Reqs :
       (/\ reqs[r].pc = "idle" /\ reqs'[r].op = "logout" /\ reqs'[r].err = ""
        /\ ~\E t \in refresh_tokens : t.token = reqs'[r].refresh_token)
       => /\ reqs'[r].pc = "done"
          /\ reqs'[r].w.code = 200
          /\ reqs'[r].w.body = LoggedOut
          /\ reqs'[r].row = NoRefreshToken
          /\ refresh_tokens' = refresh_tokens
          /\ deleted' = deleted]_vars

\* A Logout of a token string that was never stored has responded 200 while
\* the store holds rows, and no delete has ever run.
C19_Witness ==
  \E r \in Reqs :
    /\ reqs[r].op = "logout" /\ reqs[r].pc = "done" /\ reqs[r].err = ""
    /\ reqs[r].w.code = 200 /\ reqs[r].w.body = LoggedOut
    /\ ~\E t \in refresh_tokens : t.token = reqs[r].refresh_token
    /\ Cardinality(refresh_tokens) >= 2
    /\ deleted = {}

\* C20 as stated: when Logout(T) found T and the store's delete fails, the
\* response is 500, never 200, and the account's refresh tokens, T included,
\* remain in the store.
C20_DeleteFailureIs500 ==
  [][\A r \in Reqs :
       (reqs[r].op = "logout" /\ reqs[r].pc = "delete" /\ reqs'[r].pc = "done")
       => /\ reqs'[r].w.code = 500
          /\ reqs'[r].w.body.http_status = "Internal Server Error"
          /\ reqs'[r].w.body.message # LoggedOut.message
          /\ refresh_tokens' = refresh_tokens
          /\ deleted' = deleted]_vars

\* C21 as stated: in Register, Login, Refresh and Logout, a store error that
\* is not one of the typed ones yields a 500 response carrying no tokens and
\* no account id, and the handler writes nothing more to the store in that
\* request.
C21_StoreErrorIs500 ==
  [][\A r \in Reqs :
       (reqs[r].err = "" /\ reqs'[r].err = "store")
       => /\ reqs'[r].pc = "done"
          /\ reqs'[r].w.code = 500
          /\ reqs'[r].w.body.http_status = "Internal Server Error"
          /\ reqs'[r].w.body.type = ""
          /\ NoTokens(reqs'[r])
          /\ reqs'[r].w.body.account_id = 0
          /\ refresh_tokens' = refresh_tokens /\ accounts' = accounts]_vars

\* C24 as stated: WriteErrorResponse delivers the ErrorResponse's StatusCode
\* (500 when it is 0) as the HTTP status of the response: the header is
\* written before any byte of the body, so the status on the wire is the
\* status named in the error body.
C24_ErrorStatusIsDelivered ==
  \A r \in Reqs :
    (reqs[r].pc = "done" /\ reqs[r].w.body.http_status # "")
    => /\ reqs[r].w.code # 200
       /\ StatusText(reqs[r].w.code) = reqs[r].w.body.http_status

C23_TTLsConfiguredIndependently ==
  call.fn = "Load"
  => /\ call.result.AccessTokenTTLMinutes
          = EnvOr(call.args.ACCESS_TOKEN_TTL_MINUTES, DefaultAccessTokenTTLMinutes)
     /\ call.result.RefreshTokenTTLMinutes
          = EnvOr(call.args.REFRESH_TOKEN_TTL_MINUTES, DefaultRefreshTokenTTLMinutes)

HasAllClasses(password) ==
  \A class \in {Lower, Upper, Digit, Special} : HasOneOf(password, class)

\* C25: validatePassword returns the first failure in the order too short
\* (below 8), too long (above 72), missing character class, and accepts
\* exactly the passwords of length 8..72 that have a character of each of
\* the four classes.
C25_ValidatePasswordOrder ==
  call.fn = "validatePassword"
  => LET password == call.args
         n == Len(password)
     IN  /\ n < 8
              => call.result = "password must be at least 8 characters long"
         /\ n > 72
              => call.result
                   = "password must be less than or equal to 72 characters long"
         /\ (n >= 8 /\ n <= 72 /\ ~HasAllClasses(password))
              => call.result
                   = "password must contain uppercase, lowercase, digit, and special character"
         /\ call.result = "" <=> (n >= 8 /\ n <= 72 /\ HasAllClasses(password))

\* validatePassword met a password that is both too long and without an
\* uppercase letter, a digit and a special character, and named the length.
C25_Witness ==
  /\ call.fn = "validatePassword"
  /\ Len(call.args) > 72
  /\ ~HasAllClasses(call.args)
  /\ call.result = "password must be less than or equal to 72 characters long"

\* C26 as stated: for every password P the rules accept,
\* PasswordIsCorrect(P, HashPassword(P)) is true and
\* PasswordIsCorrect(P2, HashPassword(P)) is false for every P2 other than P;
\* HashPassword returns an error and no hash for every password the rules
\* reject.
C26_HashRoundTrip ==
  /\ call.fn = "PasswordIsCorrect" /\ validatePassword(call.args.P) = ""
       => call.result = (call.args.P2 = call.args.P)
  /\ call.fn = "HashPassword" /\ validatePassword(call.args) # ""
       => call.result.err # "" /\ call.result.hash = NoHash

\* A step that is the direct call of the store function fn.
Calls(fn) == call'.fn = fn /\ now' = now

\* The rows of a refresh_tokens table other than the one of a token string.
Others(tokens, token) == {t \in tokens : t.token # token}

\* C27: CreateRefreshToken on a token string that is already stored
\* succeeds, leaves exactly one row for the string, overwrites its expires_at
\* and created_at with the new values and keeps the row's account_id, even
\* when the call names another account; the other rows are untouched.
C27_UpsertKeepsAccount ==
  [][\A old \in refresh_tokens :
       (Calls("CreateRefreshToken") /\ call'.args.Token = old.token)
       => /\ call'.result = ""
          /\ refresh_tokens' \ Others(refresh_tokens', old.token)
               = {[old EXCEPT !.expires_at = call'.args.ExpiresAt,
                              !.created_at = now]}
          /\ Others(refresh_tokens', old.token) = Others(refresh_tokens, old.token)
          /\ accounts' = accounts]_vars

\* The upsert was called for a stored token string with another account's
\* id and a later expiry, after the clock moved on: the row took the new
\* expiry and creation time and stayed with its account.
C27_Witness ==
  /\ call.fn = "CreateRefreshToken" /\ call.result = ""
  /\ \E t \in refresh_tokens, a \in accounts :
       /\ t.token = call.args.Token
       /\ t.account_id # call.args.AccountID /\ a.id = call.args.AccountID
       /\ t.expires_at = call.args.ExpiresAt
       /\ t.created_at = now /\ now > 0

AccountExists(accts, accountID) == \E a \in accts : a.id = accountID

\* C28 as stated: every refresh token row references an existing account,
\* and CreateRefreshToken for an account id that does not exist returns an
\* error and inserts nothing.
C28_CreateForMissingAccountFails ==
  [][/\ \A t \in refresh_tokens' : AccountExists(accounts', t.account_id)
     /\ (Calls("CreateRefreshToken")
          /\ ~AccountExists(accounts, call'.args.AccountID))
        => call'.result # "" /\ refresh_tokens' = refresh_tokens]_vars

\* C28, amended: every refresh token row references an existing account.
\* CreateRefreshToken for an account id that does not exist inserts no row;
\* it returns an error and changes nothing when the token string is not
\* stored, and when the string is stored it succeeds as the upsert of that
\* row, which stays with its existing account.
C28_NoRowForMissingAccount ==
  [][/\ \A t \in refresh_tokens' : AccountExists(accounts', t.account_id)
     /\ (Calls("CreateRefreshToken")
          /\ ~AccountExists(accounts, call'.args.AccountID))
        => /\ {t.token : t \in refresh_tokens'} = {t.token : t \in refresh_tokens}
           /\ Cardinality(refresh_tokens') = Cardinality(refresh_tokens)
           /\ IF \E t \in refresh_tokens : t.token = call'.args.Token
                THEN call'.result = ""
                ELSE call'.result # "" /\ refresh_tokens' = refresh_tokens]_vars

\* CreateRefreshToken was refused for an account id that does not exist,
\* on a table that holds rows of existing accounts.
C28_Witness ==
  /\ call.fn = "CreateRefreshToken" /\ call.result # ""
  /\ ~AccountExists(accounts, call.args.AccountID)
  /\ accounts # {} /\ refresh_tokens # {}

\* C29: DeleteRefreshToken returns no error; for an account that has no
\* refresh tokens, or does not exist, it leaves every row unchanged, and
\* applying it a second time gives the store the first application gave.
C29_DeleteIdempotent ==
  [][Calls("DeleteRefreshToken")
     => /\ call'.result = ""
        /\ TokensOf(refresh_tokens, call'.args) = {}
             => refresh_tokens' = refresh_tokens
        /\ DeleteRefreshToken(refresh_tokens', call'.args).tokens = refresh_tokens'
        /\ DeleteRefreshToken(refresh_tokens', call'.args).err = ""
        /\ accounts' = accounts]_vars

\* DeleteRefreshToken was called for an account id that does not exist
\* while other accounts had rows, which are all still there.
C29_Witness ==
  /\ call.fn = "DeleteRefreshToken" /\ call.result = ""
  /\ ~AccountExists(accounts, call.args)
  /\ Cardinality(refresh_tokens) = MaxCallTokens

(***************************************************************************)
(* Freshness of the refresh token strings.                                 *)
(***************************************************************************)
\* C30: the refresh token string a Login or Refresh creates differs from
\* every string created before it, those deleted since included, so it is
\* never the token the Refresh presented and its Create inserts a new row
\* instead of hitting an existing one.
C30_NewTokenStringsAreFresh ==
  [][\A r \in Reqs :
       (reqs[r].pc = "issue" /\ reqs'[r].pc = "sign")
       => LET T == reqs'[r].refreshToken
          IN  /\ T \notin {t.token : t \in refresh_tokens}
              /\ T \notin deleted
              /\ \A q \in Reqs : T # reqs[q].refreshToken /\ T # reqs[q].refresh_token
              /\ refresh_tokens' \ refresh_tokens
                   = {[token |-> T, account_id |-> reqs[r].accountID,
                       expires_at |-> reqs'[r].refreshTokenExpiresAt,
                       created_at |-> now]}
              /\ refresh_tokens \subseteq refresh_tokens']_vars

\* A Refresh(T) answered 200 with a refresh token other than T while both
\* strings are rows of the store.
C30_Witness ==
  \E r \in Reqs :
    /\ reqs[r].op = "refresh" /\ reqs[r].pc = "done" /\ reqs[r].w.code = 200
    /\ reqs[r].w.body.refresh_token # reqs[r].refresh_token
    /\ {reqs[r].w.body.refresh_token, reqs[r].refresh_token}
         \subseteq {t.token : t \in refresh_tokens}

(***************************************************************************)
(* Frame properties: what the operations leave alone.                      *)
(***************************************************************************)
\* C31: account records are only ever added.  Every step keeps every account
\* row as it is (id, email, password hash); a step of a Login, Refresh or
\* Logout request leaves the accounts table unchanged, and the table changes
\* only when a Register adds one row, the account of its 201 response.
C31_AccountsOnlyAdded ==
  [][/\ accounts \subseteq accounts'
     /\ \A r \in Reqs :
          (reqs'[r] # reqs[r] /\ {reqs[r].op, reqs'[r].op} \cap {"login", "refresh", "logout"} # {})
          => accounts' = accounts
     /\ accounts' # accounts
        => \E r \in Reqs :
             /\ reqs[r].pc = "idle" /\ reqs'[r].op = "register"
             /\ reqs'[r].w.code = 201
             /\ accounts' \ accounts
                  = {a \in accounts' : a.id = reqs'[r].w.body.account_id}
             /\ \A a \in accounts' \ accounts :
                  a.email = reqs'[r].email /\ a.id \notin {b.id : b \in accounts}]_vars

\* A Logout has deleted a token that a Refresh issued to a registered
\* account after its Login, and the account is still in the table.
C31_Witness ==
  \E r \in Reqs, a \in accounts :
    /\ reqs[r].op = "logout" /\ reqs[r].pc = "done" /\ reqs[r].w.body = LoggedOut
    /\ reqs[r].row.account_id = a.id
    /\ Cardinality(deleted) >= 2
    /\ a.email = EmailA /\ PasswordIsCorrect(PwGood, a.password_hash)

\* C32: Logout of a token owned by account A leaves every refresh token row
\* owned by another account unchanged: the same rows, with the same token,
\* account and expiry, are in the store after each step of the Logout.
C32_LogoutLeavesOtherAccounts ==
  [][\A r \in Reqs :
       (reqs[r].op = "logout" /\ reqs[r].pc = "delete" /\ reqs'[r] # reqs[r])
       => LET A == reqs[r].row.account_id
          IN  /\ {t \in refresh_tokens' : t.account_id # A}
                   = {t \in refresh_tokens : t.account_id # A}
              /\ deleted' \ deleted
                   \subseteq {t.token : t \in TokensOf(refresh_tokens, A)}]_vars

\* A Logout has deleted the tokens of its account while another account's
\* token is in the store.
C32_Witness ==
  \E r \in Reqs, t \in refresh_tokens :
    /\ reqs[r].op = "logout" /\ reqs[r].pc = "respond"
    /\ reqs[r].refresh_token \in deleted
    /\ t.account_id # reqs[r].row.account_id

\* C33: Register, Login and Refresh never remove or modify a refresh token
\* row, whether they succeed or fail: every row in the store before a step of
\* such a request is in the store, unchanged, after it (a row rejected as
\* expired and an account's earlier tokens included), and a step after which
\* a row is missing or different is the account-wide delete of a Logout.
C33_OnlyLogoutRemovesRows ==
  [][/\ \A r \in Reqs :
          (/\ reqs'[r] # reqs[r]
           /\ {reqs[r].op, reqs'[r].op} \cap {"register", "login", "refresh"} # {})
          => refresh_tokens \subseteq refresh_tokens'
     /\ ~(refresh_tokens \subseteq refresh_tokens')
        => \E r \in Reqs :
             /\ reqs[r].op = "logout" /\ reqs[r].pc = "delete"
             /\ reqs'[r].pc = "respond"
             /\ refresh_tokens \ refresh_tokens'
                  = TokensOf(refresh_tokens, reqs[r].row.account_id)]_vars

\* A Refresh was rejected because its token had expired, and the expired row
\* is still in the store next to another token of its account.
C33_Witness ==
  \E r \in Reqs :
    /\ reqs[r].op = "refresh" /\ reqs[r].pc = "done"
    /\ reqs[r].w.body.type = "invalid_refresh_token"
    /\ reqs[r].row \in refresh_tokens
    /\ Before(reqs[r].row.expires_at, now)
    /\ Cardinality(TokensOf(refresh_tokens, reqs[r].row.account_id)) >= 2

(***************************************************************************)
(* What a successful Refresh and Login hand out.                           *)
(***************************************************************************)
\* C34: a successful Refresh(T) issues tokens for the account that owns T and
\* for no other: the row the handler read is T's row in the store, and the
\* account_id of the newly persisted refresh token, the account_id claim of
\* the access token and the account_id of the response all equal the
\* account_id of that row.
C34_RefreshIssuesForOwner ==
  [][\A r \in Reqs :
       LET q == reqs'[r]
       IN  (q.op = "refresh" /\ q # reqs[r])
           => /\ q.pc = "checkExpiry"
                   => q.row \in refresh_tokens /\ q.row.token = q.refresh_token
              /\ q.pc = "sign"
                   => \E t \in refresh_tokens' \ refresh_tokens :
                        t.token = q.refreshToken /\ t.account_id = q.row.account_id
              /\ q.pc = "respond"
                   => q.accessToken.account_id = q.row.account_id
              /\ (q.pc = "done" /\ q.w.body.message = "Success")
                   => /\ q.w.code = 200
                      /\ q.w.body.account_id = q.row.account_id
                      /\ q.w.body.access_token.account_id = q.row.account_id
                      /\ q.w.body.refresh_token = q.refreshToken]_vars

\* A Refresh of a token of the second account answered 200 while the first
\* account, too, has a token in the store.
C34_Witness ==
  \E r \in Reqs :
    /\ reqs[r].op = "refresh" /\ reqs[r].pc = "done"
    /\ reqs[r].w.code = 200 /\ reqs[r].w.body.message = "Success"
    /\ reqs[r].w.body.account_id = 2 /\ reqs[r].row.account_id = 2
    /\ TokensOf(refresh_tokens, 1) # {}

\* C35 as stated: after Register(e, p) responded 201 with account id A, and
\* after any later requests, Login(e, p) responds 200 with account_id A and
\* Login(e, p2) with p2 other than p responds 401 incorrect_password.  (The
\* password of every account of the model is PwGood; a Login that met no
\* store or signer error is followed to its response.)
C35_LoginAfterRegister ==
  [][\A r \in Reqs, a \in accounts :
       /\ (/\ reqs[r].pc = "idle" /\ reqs'[r].op = "login" /\ reqs'[r].err = ""
           /\ reqs'[r].email = a.email)
          => IF reqs'[r].pc = "done"
               THEN /\ reqs'[r].password # PwGood
                    /\ reqs'[r].w.code = 401
                    /\ reqs'[r].w.body.type = "incorrect_password"
               ELSE /\ reqs'[r].pc = "issue"
                    /\ reqs'[r].accountID = a.id
                    /\ PasswordIsCorrect(PwGood, a.password_hash)
       /\ (/\ reqs[r].op = "login" /\ reqs[r].pc = "respond" /\ reqs'[r].pc = "done"
           /\ reqs[r].email = a.email)
          => /\ reqs'[r].w.code = 200
             /\ reqs'[r].w.body.account_id = a.id]_vars

(***************************************************************************)
(* Expiry: where it is looked at and where it is not.                      *)
(***************************************************************************)
\* C36: Logout does not look at the expiry of the token presented.  When
\* Logout(T) finds T stored but expired, it goes on to the delete, the delete
\* removes every refresh token of T's account, the unexpired ones included,
\* and the response is 200 "Logged out successfully".
C36_LogoutIgnoresExpiry ==
  [][\A r \in Reqs :
       LET q == reqs'[r]
           A == q.row.account_id
       IN  (/\ q.op = "logout" /\ q # reqs[r] /\ q.err = ""
            /\ q.row # NoRefreshToken /\ Before(q.row.expires_at, now))
           => /\ reqs[r].pc = "idle" => q.pc = "delete"
              /\ reqs[r].pc = "delete"
                   => /\ q.pc = "respond"
                      /\ TokensOf(refresh_tokens', A) = {}
                      /\ {t.token : t \in TokensOf(refresh_tokens, A)}
                           \subseteq deleted'
              /\ reqs[r].pc = "respond"
                   => /\ q.pc = "done"
                      /\ q.w.code = 200
                      /\ q.w.body = LoggedOut]_vars

\* A Logout that presented an expired token has deleted the rows of its
\* account, among them the unexpired token a Login in flight had just stored.
C36_Witness ==
  \E r, q \in Reqs :
    /\ reqs[r].op = "logout" /\ reqs[r].pc = "respond"
    /\ Before(reqs[r].row.expires_at, now)
    /\ reqs[q].op = "login" /\ reqs[q].pc \in {"sign", "respond"}
    /\ reqs[q].accountID = reqs[r].row.account_id
    /\ reqs[q].refreshToken \in deleted
    /\ ~Before(reqs[q].refreshTokenExpiresAt, now)
    /\ TokensOf(refresh_tokens, reqs[r].row.account_id) = {}

\* C37: GetRefreshToken returns the stored row of T whether or not it has
\* expired, and, the store and the signer working, Refresh(T) then succeeds
\* exactly when T's expires_at is not strictly before the time of the check:
\* a token whose expires_at is that very instant is accepted, an earlier one
\* is rejected as invalid_refresh_token without tokens.
C37_RefreshAcceptsUntilExpiryInstant ==
  [][\A r \in Reqs :
       LET p == reqs[r]
           q == reqs'[r]
       IN  (q.op = "refresh" /\ q # p /\ q.err = "")
           => /\ (p.pc = "idle" /\ \E t \in refresh_tokens : t.token = q.refresh_token)
                   => /\ q.pc = "checkExpiry"
                      /\ q.row \in refresh_tokens /\ q.row.token = q.refresh_token
              /\ p.pc = "checkExpiry"
                   => IF p.row.expires_at >= now
                        THEN q.pc = "issue"
                        ELSE /\ q.pc = "done"
                             /\ q.w.body.type = "invalid_refresh_token"
                             /\ q.w.body.message # "Success"
                             /\ NoTokens(q)
              /\ p.pc = "issue" => q.pc = "sign"
              /\ p.pc = "sign" => q.pc = "respond"
              /\ p.pc = "respond"
                   => /\ q.pc = "done" /\ q.w.code = 200
                      /\ q.w.body.message = "Success"
                      /\ q.w.body.refresh_token # 0
                      /\ q.w.body.access_token # NoAccessToken]_vars

\* A Refresh succeeded with a token that expires at the present instant,
\* after the clock had moved.
C37_Witness ==
  \E r \in Reqs :
    /\ reqs[r].op = "refresh" /\ reqs[r].pc = "done"
    /\ reqs[r].w.code = 200 /\ reqs[r].w.body.message = "Success"
    /\ reqs[r].row.expires_at = now /\ now > 0

(***************************************************************************)
(* Emails.                                                                 *)
(***************************************************************************)
\* C38: emails are compared as exact strings, nothing is normalised.  A
\* Register with a valid email and password that meets no store error creates
\* the account exactly when no account has that very string, also when an
\* account has an email differing from it only in letter case, and stores the
\* string as given; a Login finds an account exactly when one was registered
\* with the very string it presents.
C38_EmailsMatchExactly ==
  [][\A r \in Reqs :
       LET q == reqs'[r]
           same == {a \in accounts : a.email = q.email}
       IN  /\ (/\ reqs[r].pc = "idle" /\ q.op = "register" /\ q.err = ""
               /\ IsValidEmail(q.email) /\ Validated(q))
              => IF same = {}
                   THEN /\ q.w.code = 201
                        /\ \E a \in accounts' \ accounts :
                             a.email = q.email /\ a.id = q.w.body.account_id
                   ELSE /\ q.w.body.type = "account_already_exists"
                        /\ accounts' = accounts
           /\ (reqs[r].pc = "idle" /\ q.op = "login" /\ q.err = "")
              => IF same = {}
                   THEN q.pc = "done" /\ q.w.body.type = "account_not_found"
                   ELSE /\ q.w.body.type # "account_not_found"
                        /\ q.pc = "issue" => \E a \in same : a.id = q.accountID]_vars

\* Two accounts whose emails differ only in letter case, and a Login under
\* the second string that found the second account.
C38_Witness ==
  \E r \in Reqs, a, b \in accounts :
    /\ a.email # b.email /\ Fold(a.email) = Fold(b.email)
    /\ reqs[r].op = "login" /\ reqs[r].pc = "issue"
    /\ reqs[r].email = b.email /\ reqs[r].accountID = b.id /\ b.id = 2

(***************************************************************************)
(* The access token.                                                       *)
(***************************************************************************)
\* What C39 asks of the claims of a minted token: the given account_id (0,
\* the empty one, too), the issuer, a non-empty id, the uuid drawn for it,
\* and exp = iat + the configured access TTL, iat being the time of minting.
CarriesClaims(token, args) ==
  /\ token.account_id = args.accountID
  /\ token.iss = "account-management"
  /\ token.jti # 0 /\ token.jti = args.uuid
  /\ token.iat = args.timeNow
  /\ token.exp = token.iat + args.cfg.AccessTokenTTLMinutes

\* Two keys that are the same bytes up to zero bytes at the end of one.
SameUpToTrailingZeros(k1, k2) ==
  \E s \in {k1, k2}, l \in {k1, k2} :
    /\ {s, l} = {k1, k2}
    /\ Len(s) <= Len(l)
    /\ \A i \in 1..Len(l) : l[i] = (IF i <= Len(s) THEN s[i] ELSE NUL)

C40_ExpiresInWithinTTL ==
  call.fn = "ExpiresIn"
  => LET n == call.result
         d == call.args.d
         ttl == call.args.ttl
     IN  /\ d >= 0 => (n * 1000 <= d /\ d < (n + 1) * 1000)
         /\ d < 0 => ((n - 1) * 1000 < d /\ d <= n * 1000)
         /\ n <= ttl * 60
         /\ ttl <= 0 => n <= 0

====
